---------------------------- MODULE Spec2Model ----------------------------
(***************************************************************************)
(* Model of vectorizer.py: one-way synchronisation of a directory of       *)
(* markdown files into a SurrealDB table of embedded documents.            *)
(*                                                                         *)
(* Text is kept run-length encoded: a text is a sequence of runs <<c, n>>  *)
(* (n > 0 copies of the character c, neighbouring runs of different        *)
(* characters), so that texts around MAX_CONTENT_LENGTH stay small while   *)
(* len() and slicing are computed on the real lengths.                     *)
(***************************************************************************)
EXTENDS Integers, Sequences, FiniteSets, TLC

\* vectorizer.py:14
MAX_CONTENT_LENGTH == 10000

\* How far past MAX_CONTENT_LENGTH the oversized documents of the model reach.
Overrun == 1

(***************************************************************************)
(* Texts                                                                   *)
(***************************************************************************)
RECURSIVE TextLen(_)
\* len(content)
TextLen(t) == IF t = <<>> THEN 0 ELSE Head(t)[2] + TextLen(Tail(t))

RECURSIVE Prefix(_, _)
\* content[:k]
Prefix(t, k) ==
    IF k = 0 \/ t = <<>> THEN <<>>
    ELSE IF Head(t)[2] <= k
         THEN <<Head(t)>> \o Prefix(Tail(t), k - Head(t)[2])
         ELSE << <<Head(t)[1], k>> >>

\* The documents the filesystem of the model can hold.
\* Short is below the limit, Exact is at it, Long is past it and starts as Exact.
Short == << <<"x", 1>> >>
Exact == << <<"a", MAX_CONTENT_LENGTH - 1>>, <<"b", 1>> >>
Long  == << <<"a", MAX_CONTENT_LENGTH - 1>>, <<"b", 1 + Overrun>> >>
Contents == {Short, Exact, Long}

\* Relative paths of the markdown files that may exist under the docs directory.
Files == {"a.md", "b.md", "sub/c.md"}

\* A path with no file behind it (no text has a run of length 0).
Absent == << <<"absent", 0>> >>

\* The texts each path of the model can hold.
Library ==
    [f \in Files |-> IF f = "sub/c.md" THEN {Short} ELSE Contents]

\* The states the docs directory can be in.
Directories ==
    {d \in [Files -> Contents \cup {Absent}] :
        \A f \in Files : d[f] \in Library[f] \cup {Absent}}

\* Embedding vectors the provider may answer with.
Vectors == {"v1", "v2"}

(***************************************************************************)
(* Pure functions of the program                                           *)
(***************************************************************************)
\* SHA-256 taken as collision free: the digest determines the text.
compute_hash(content) == [sha256 |-> content]

filename_to_id(filename) == [sha256 |-> filename]

\* The responses get_embedding can return for a text (the provider decides).
get_embedding(text) == Vectors

\* rglob("*.md"): the files present, as a set; the listing order is not fixed.
scan_markdown_files(dir) == {f \in Files : dir[f] # Absent}

\* The orders in which a listing can enumerate the set S.
Listings(S) ==
    {s \in [1..Cardinality(S) -> S] : \A f \in S : \E i \in DOMAIN s : s[i] = f}

EmptyMap == [k \in {} |-> TRUE]

\* The shape test of line 56 taking every answer for an empty one.
load_existing_records_empty(db) == EmptyMap

\* SELECT * FROM documents, keyed by filename.
load_existing_records(db) ==
    LET records == {db[k] : k \in DOMAIN db}
    IN  [f \in {r.filename : r \in records} |->
            CHOOSE r \in records : r.filename = f]

\* A delete addressed by the file name itself instead of the derived record id:
\* no record is stored under that key, the statement removes nothing.
delete_record_by_name(db, filename) == db

\* A DELETE without the record id: it empties the table.
delete_record_whole_table(db, filename) == EmptyMap

\* DELETE documents:<record_id>
delete_record(db, filename) ==
    LET record_id == filename_to_id(filename)
    IN  [k \in DOMAIN db \ {record_id} |-> db[k]]

\* An UPSERT that replaces the table instead of the one record.
upsert_record_whole_table(db, filename, content, embedding, content_hash) ==
    [k \in {filename_to_id(filename)} |->
        [filename |-> filename, content |-> content,
         embedding |-> embedding, hash |-> content_hash]]

\* An UPSERT that leaves the embedding of an existing record as it is.
upsert_record_keeps_embedding(db, filename, content, embedding, content_hash) ==
    [k \in DOMAIN db \cup {filename_to_id(filename)} |->
        IF k = filename_to_id(filename)
        THEN [filename |-> filename, content |-> content,
              embedding |-> IF k \in DOMAIN db THEN db[k].embedding
                            ELSE embedding,
              hash |-> content_hash]
        ELSE db[k]]

\* An UPSERT that leaves the hash of an existing record as it is.
upsert_record_keeps_hash(db, filename, content, embedding, content_hash) ==
    [k \in DOMAIN db \cup {filename_to_id(filename)} |->
        IF k = filename_to_id(filename)
        THEN [filename |-> filename, content |-> content,
              embedding |-> embedding,
              hash |-> IF k \in DOMAIN db THEN db[k].hash ELSE content_hash]
        ELSE db[k]]

\* An UPSERT statement that writes nothing.
upsert_record_dropped(db, filename, content, embedding, content_hash) == db

\* UPSERT documents:<record_id> SET filename, content, embedding, hash
upsert_record(db, filename, content, embedding, content_hash) ==
    LET record_id == filename_to_id(filename)
    IN  [k \in DOMAIN db \cup {record_id} |->
            IF k = record_id
            THEN [filename |-> filename, content |-> content,
                  embedding |-> embedding, hash |-> content_hash]
            ELSE db[k]]

\* if len(content) > MAX_CONTENT_LENGTH
Exceeds(content) == TextLen(content) > MAX_CONTENT_LENGTH

\* The slice one character too long.
Truncate_off_by_one(content) ==
    IF Exceeds(content) THEN Prefix(content, MAX_CONTENT_LENGTH + 1) ELSE content

\* content = content[:MAX_CONTENT_LENGTH] when it exceeds the limit
Truncate(content) ==
    IF Exceeds(content) THEN Prefix(content, MAX_CONTENT_LENGTH) ELSE content

\* The comparison of the fingerprints inverted.
Classify_inverted(existing, relative_path, content_hash) ==
    IF relative_path \in DOMAIN existing
    THEN IF existing[relative_path].hash # content_hash
         THEN "Unchanged"
         ELSE "Updated"
    ELSE "New"

\* The branch taken at lines 158-169.
Classify(existing, relative_path, content_hash) ==
    IF relative_path \in DOMAIN existing
    THEN IF existing[relative_path].hash = content_hash
         THEN "Unchanged"
         ELSE "Updated"
    ELSE "New"

\* The continue of the Unchanged branch left out.
NeedsEmbedding_always(verdict) == TRUE

\* Line 163: an Unchanged document skips lines 171-172.
NeedsEmbedding(verdict) == verdict # "Unchanged"

\* The early exit left out.
NothingToDo_never(files) == FALSE

\* md_files is empty
NothingToDo(files) == files = {}

\* The operands of the set difference swapped.
DeletedFilenames_swapped(existing, current) == current \ DOMAIN existing

\* set(existing_records.keys()) - current_filenames
DeletedFilenames(existing, current) == DOMAIN existing \ current

\* The additions left out of the total.
DocsAfter_ignoring_new(before, new, deleted) == before - deleted

\* The deletions left out of the total.
DocsAfter_ignoring_deleted(before, new, deleted) == before + new

\* docs_before + stats["new"] - deleted_count
DocsAfter(before, new, deleted) == before + new - deleted

\* The truncation flag ignored at exit.
FinalStatus_always_zero(exceeded) == 0

\* exit status of a run that reached the end of the report
FinalStatus(exceeded) == IF exceeded THEN 1 ELSE 0

\* The required parameters, in the order lines 96-107 test them.
Params == <<"host", "user", "password", "namespace", "database", "openai_key">>

\* What the message names a missing parameter by.
Label(p) ==
    CASE p = "host"       -> "--host or SURREAL_HOST"
      [] p = "user"       -> "--user or SURREAL_USER"
      [] p = "password"   -> "--password or SURREAL_PASSWORD"
      [] p = "namespace"  -> "--namespace or SURREAL_NS"
      [] p = "database"   -> "--database or SURREAL_DB"
      [] p = "openai_key" -> "--openai-key or OPENAI_API_KEY"

\* The resolutions of lines 87-92: TRUE where flag or environment gave a value.
Resolutions == [{Params[i] : i \in DOMAIN Params} -> BOOLEAN]

AllResolved == [p \in {Params[i] : i \in DOMAIN Params} |-> TRUE]

\* Three of the resolutions: the last parameter missing, two missing with
\* others between them, all missing.
SampledResolutions ==
    {given \in Resolutions :
        {p \in DOMAIN given : ~given[p]} \in
            {{"openai_key"}, {"host", "database"}, DOMAIN given}}

RECURSIVE MissingFrom(_, _)
\* The list missing as lines 95-107 build it, from position i of Params on.
MissingFrom(given, i) ==
    IF i > Len(Params) THEN <<>>
    ELSE IF given[Params[i]]
         THEN MissingFrom(given, i + 1)
         ELSE <<Label(Params[i])>> \o MissingFrom(given, i + 1)

RECURSIVE FirstMissingFrom(_, _)
\* The same list cut after its first entry.
FirstMissingFrom(given, i) ==
    IF i > Len(Params) THEN <<>>
    ELSE IF given[Params[i]]
         THEN FirstMissingFrom(given, i + 1)
         ELSE <<Label(Params[i])>>

\* The validation stopping at the first missing parameter.
Missing_first_only(given) == FirstMissingFrom(given, 1)

\* missing, lines 95-107
Missing(given) == MissingFrom(given, 1)

(***************************************************************************)
(* State                                                                   *)
(***************************************************************************)
VARIABLES
    fs,                 \* the docs directory: relative path -> content or Absent
    store,              \* the documents table: record id -> record
    pc,                 \* "idle", "rejected", "loop", "delete", "done", "aborted"
    existing_records,   \* snapshot loaded at line 132
    md_files,           \* the listing of line 133
    idx,                \* position of the for loop of line 145 in md_files
    docs_before,
    exceeded_limit,
    current_filenames,
    stats,
    deleted_filenames,  \* line 175
    pending,            \* members of deleted_filenames the loop of 176 has yet to visit
    deleted_count,
    docs_after,
    exit_code,          \* -1 while the process has not exited
    reported,           \* the Statistics block was printed
    classified,         \* the "New:", "Updated:", "Unchanged:" lines printed, by path
    calls,              \* provider and store calls issued by this run, in order
    store0,             \* the table as it was when this run started
    rerun,              \* this run follows a completed run with no change of fs
    resolved,           \* lines 87-92: which parameters this run was given
    stderr,             \* the error messages this run printed
    session,            \* the connection of lines 119-129: "none", "open", "closed"
    recovering,         \* this run follows an aborted run, same fs (where observed)
    origin              \* the table as it was when that aborted run started

vars == <<fs, store, pc, existing_records, md_files, idx, docs_before,
          exceeded_limit, current_filenames, stats, deleted_filenames, pending,
          deleted_count, docs_after, exit_code, reported, classified, calls,
          store0, rerun, resolved, stderr, session, recovering, origin>>

\* The variables of the start-up of run().
startup == <<resolved, stderr, session, recovering, origin>>

NoClass == [f \in Files |-> "None"]
ZeroStats == [new |-> 0, updated |-> 0, unchanged |-> 0]

Init ==
    /\ fs \in Directories
    /\ store = EmptyMap
    /\ pc = "idle"
    /\ existing_records = EmptyMap
    /\ md_files = <<>>
    /\ idx = 0
    /\ docs_before = 0
    /\ exceeded_limit = FALSE
    /\ current_filenames = {}
    /\ stats = ZeroStats
    /\ deleted_filenames = {}
    /\ pending = {}
    /\ deleted_count = 0
    /\ docs_after = 0
    /\ exit_code = -1
    /\ reported = FALSE
    /\ classified = NoClass
    /\ calls = <<>>
    /\ store0 = EmptyMap
    /\ rerun = FALSE
    /\ resolved = AllResolved
    /\ stderr = <<>>
    /\ session = "none"
    /\ recovering = FALSE
    /\ origin = EmptyMap

\* The locals of run() before line 129, and the records of a fresh process.
Fresh ==
    /\ existing_records' = EmptyMap
    /\ md_files' = <<>>
    /\ idx' = 0
    /\ docs_before' = 0
    /\ exceeded_limit' = FALSE
    /\ current_filenames' = {}
    /\ stats' = ZeroStats
    /\ deleted_filenames' = {}
    /\ pending' = {}
    /\ deleted_count' = 0
    /\ docs_after' = 0
    /\ reported' = FALSE
    /\ classified' = NoClass

Stopped == pc \in {"idle", "done", "aborted", "rejected"}

\* What a starting run records of the run before it: where the predecessor is
\* observed and was aborted, the table that predecessor started from.
Observed(observe) ==
    /\ recovering' = (observe /\ pc = "aborted")
    /\ origin' = IF observe /\ pc = "aborted" THEN store0 ELSE EmptyMap

(***************************************************************************)
(* The environment edits the directory between two runs.                   *)
(***************************************************************************)
EditFsWithin(library) ==
    /\ Stopped
    /\ \E f \in Files : \E c \in library[f] \cup {Absent} :
         /\ c # fs[f]
         /\ fs' = [fs EXCEPT ![f] = c]
    /\ pc' = "idle"
    /\ Fresh
    /\ exit_code' = -1
    /\ calls' = <<>>
    /\ store0' = store
    /\ rerun' = FALSE
    /\ resolved' = AllResolved
    /\ stderr' = <<>>
    /\ session' = "none"
    /\ recovering' = FALSE
    /\ origin' = EmptyMap
    /\ UNCHANGED store

EditFs == EditFsWithin(Library)

(***************************************************************************)
(* run(), lines 86-116                                                     *)
(***************************************************************************)
\* Some required parameter is missing: one message, sys.exit(1).
RejectMissingAmong(resolutions) ==
    /\ Stopped
    /\ \E given \in resolutions :
         /\ Missing(given) # <<>>
         /\ resolved' = given
         /\ stderr' = <<[error |-> "Missing required parameters",
                         items |-> Missing(given)]>>
    /\ Fresh
    /\ pc' = "rejected"
    /\ exit_code' = 1
    /\ session' = "none"
    /\ recovering' = FALSE
    /\ origin' = EmptyMap
    /\ calls' = <<>>
    /\ store0' = store
    /\ rerun' = FALSE
    /\ UNCHANGED <<fs, store>>

\* In Spec the resolutions are sampled, in SpecStartup they are all there.
RejectMissing == RejectMissingAmong(SampledResolutions)

RejectMissingAny == RejectMissingAmong(Resolutions)

\* Every parameter is there, args.docs is not a directory: sys.exit(1).
RejectNotADirectory ==
    /\ Stopped
    /\ Missing(AllResolved) = <<>>
    /\ resolved' = AllResolved
    /\ stderr' = <<[error |-> "is not a directory", items |-> <<>>]>>
    /\ Fresh
    /\ pc' = "rejected"
    /\ exit_code' = 1
    /\ session' = "none"
    /\ recovering' = FALSE
    /\ origin' = EmptyMap
    /\ calls' = <<>>
    /\ store0' = store
    /\ rerun' = FALSE
    /\ UNCHANGED <<fs, store>>

(***************************************************************************)
(* run(), lines 129-143                                                    *)
(***************************************************************************)
\* load_existing_records raises: the run dies with the exception.
StartLoadFailsObserving(observe) ==
    /\ Stopped
    /\ Fresh
    /\ pc' = "aborted"
    /\ exit_code' = 1
    /\ calls' = <<[op |-> "select", ok |-> FALSE]>>
    /\ store0' = store
    /\ rerun' = (pc = "done")
    /\ Missing(AllResolved) = <<>>
    /\ resolved' = AllResolved
    /\ stderr' = <<>>
    /\ session' = "open"
    /\ Observed(observe)
    /\ UNCHANGED <<fs, store>>

\* "No markdown files found", sys.exit(0)
StartNothingToDoObserving(observe) ==
    /\ Stopped
    /\ NothingToDo(scan_markdown_files(fs))
    /\ existing_records' = load_existing_records(store)
    /\ md_files' = <<>>
    /\ docs_before' = Cardinality(DOMAIN load_existing_records(store))
    /\ idx' = 0
    /\ exceeded_limit' = FALSE
    /\ current_filenames' = {}
    /\ stats' = ZeroStats
    /\ deleted_filenames' = {}
    /\ pending' = {}
    /\ deleted_count' = 0
    /\ docs_after' = 0
    /\ reported' = FALSE
    /\ classified' = NoClass
    /\ pc' = "done"
    /\ exit_code' = 0
    /\ calls' = <<[op |-> "select", ok |-> TRUE]>>
    /\ store0' = store
    /\ rerun' = (pc = "done")
    /\ Missing(AllResolved) = <<>>
    /\ resolved' = AllResolved
    /\ stderr' = <<>>
    /\ session' = "open"
    /\ Observed(observe)
    /\ UNCHANGED <<fs, store>>

StartScanObserving(observe) ==
    /\ Stopped
    /\ ~NothingToDo(scan_markdown_files(fs))
    /\ \E listing \in Listings(scan_markdown_files(fs)) : md_files' = listing
    /\ existing_records' = load_existing_records(store)
    /\ docs_before' = Cardinality(DOMAIN load_existing_records(store))
    /\ idx' = 1
    /\ exceeded_limit' = FALSE
    /\ current_filenames' = {}
    /\ stats' = ZeroStats
    /\ deleted_filenames' = {}
    /\ pending' = {}
    /\ deleted_count' = 0
    /\ docs_after' = 0
    /\ reported' = FALSE
    /\ classified' = NoClass
    /\ pc' = "loop"
    /\ exit_code' = -1
    /\ calls' = <<[op |-> "select", ok |-> TRUE]>>
    /\ store0' = store
    /\ rerun' = (pc = "done")
    /\ Missing(AllResolved) = <<>>
    /\ resolved' = AllResolved
    /\ stderr' = <<>>
    /\ session' = "open"
    /\ Observed(observe)
    /\ UNCHANGED <<fs, store>>

\* In Spec a run records nothing of the run before it.
StartLoadFails == StartLoadFailsObserving(FALSE)
StartNothingToDo == StartNothingToDoObserving(FALSE)
StartScan == StartScanObserving(FALSE)

\* In SpecRecovery it does.
RestartLoadFails == StartLoadFailsObserving(TRUE)
RestartNothingToDo == StartNothingToDoObserving(TRUE)
RestartScan == StartScanObserving(TRUE)

(***************************************************************************)
(* One iteration of the loop of lines 145-172                              *)
(***************************************************************************)
InLoop == pc = "loop" /\ idx <= Len(md_files)

relative_path == md_files[idx]
raw_content == fs[relative_path]
content == Truncate(raw_content)
content_hash == compute_hash(content)
Verdict == Classify(existing_records, relative_path, content_hash)

\* An Updated document falling through into the New counter as well.
Count_falling_through(st, v) ==
    CASE v = "New"       -> [st EXCEPT !.new = @ + 1]
      [] v = "Updated"   -> [st EXCEPT !.updated = @ + 1, !.new = @ + 1]
      [] v = "Unchanged" -> [st EXCEPT !.unchanged = @ + 1]

\* The counter set to 1 instead of incremented.
Count_assigning(st, v) ==
    CASE v = "New"       -> [st EXCEPT !.new = 1]
      [] v = "Updated"   -> [st EXCEPT !.updated = 1]
      [] v = "Unchanged" -> [st EXCEPT !.unchanged = 1]

\* stats[...] += 1 for the verdict v
Count(st, v) ==
    CASE v = "New"       -> [st EXCEPT !.new = @ + 1]
      [] v = "Updated"   -> [st EXCEPT !.updated = @ + 1]
      [] v = "Unchanged" -> [st EXCEPT !.unchanged = @ + 1]

\* lines 146-169, common to every outcome of an iteration
Classified ==
    /\ current_filenames' = current_filenames \cup {relative_path}
    /\ exceeded_limit' = (exceeded_limit \/ Exceeds(raw_content))
    /\ stats' = Count(stats, Verdict)
    /\ classified' = [classified EXCEPT ![relative_path] = Verdict]

EmbedCall(ok) ==
    [op |-> "embed", file |-> relative_path, text |-> content, ok |-> ok]

UpsertCall(embedding, ok) ==
    [op |-> "upsert", file |-> relative_path, key |-> filename_to_id(relative_path),
     content |-> content, embedding |-> embedding, hash |-> content_hash, ok |-> ok]

DeleteCall(filename, ok) ==
    [op |-> "delete", file |-> filename, key |-> filename_to_id(filename), ok |-> ok]

\* "Unchanged": continue
ProcessUnchanged ==
    /\ InLoop
    /\ ~NeedsEmbedding(Verdict)
    /\ Classified
    /\ idx' = idx + 1
    /\ UNCHANGED <<fs, store, pc, existing_records, md_files, docs_before,
                   deleted_filenames, pending, deleted_count, docs_after,
                   exit_code, reported, calls, store0, rerun>>
    /\ UNCHANGED startup

\* get_embedding raises
ProcessEmbedFails ==
    /\ InLoop
    /\ NeedsEmbedding(Verdict)
    /\ Classified
    /\ calls' = Append(calls, EmbedCall(FALSE))
    /\ pc' = "aborted"
    /\ exit_code' = 1
    /\ UNCHANGED <<fs, store, existing_records, md_files, idx, docs_before,
                   deleted_filenames, pending, deleted_count, docs_after,
                   reported, store0, rerun>>
    /\ UNCHANGED startup

\* get_embedding answers, upsert_record raises
ProcessUpsertFails ==
    /\ InLoop
    /\ NeedsEmbedding(Verdict)
    /\ Classified
    /\ \E embedding \in get_embedding(content) :
         calls' = calls \o <<EmbedCall(TRUE), UpsertCall(embedding, FALSE)>>
    /\ pc' = "aborted"
    /\ exit_code' = 1
    /\ UNCHANGED <<fs, store, existing_records, md_files, idx, docs_before,
                   deleted_filenames, pending, deleted_count, docs_after,
                   reported, store0, rerun>>
    /\ UNCHANGED startup

\* get_embedding answers, upsert_record succeeds
ProcessUpsert ==
    /\ InLoop
    /\ NeedsEmbedding(Verdict)
    /\ Classified
    /\ \E embedding \in get_embedding(content) :
         /\ store' = upsert_record(store, relative_path, content, embedding,
                                   content_hash)
         /\ calls' = calls \o <<EmbedCall(TRUE), UpsertCall(embedding, TRUE)>>
    /\ idx' = idx + 1
    /\ UNCHANGED <<fs, pc, existing_records, md_files, docs_before,
                   deleted_filenames, pending, deleted_count, docs_after,
                   exit_code, reported, store0, rerun>>
    /\ UNCHANGED startup

(***************************************************************************)
(* Lines 174-177                                                           *)
(***************************************************************************)
ComputeDeleted ==
    /\ pc = "loop"
    /\ idx > Len(md_files)
    /\ deleted_filenames' = DeletedFilenames(existing_records, current_filenames)
    /\ pending' = DeletedFilenames(existing_records, current_filenames)
    /\ pc' = "delete"
    /\ UNCHANGED <<fs, store, existing_records, md_files, idx, docs_before,
                   exceeded_limit, current_filenames, stats, deleted_count,
                   docs_after, exit_code, reported, classified, calls, store0,
                   rerun>>
    /\ UNCHANGED startup

DeleteOne ==
    /\ pc = "delete"
    /\ \E filename \in pending :
         /\ store' = delete_record(store, filename)
         /\ calls' = Append(calls, DeleteCall(filename, TRUE))
         /\ pending' = pending \ {filename}
    /\ UNCHANGED <<fs, pc, existing_records, md_files, idx, docs_before,
                   exceeded_limit, current_filenames, stats, deleted_filenames,
                   deleted_count, docs_after, exit_code, reported, classified,
                   store0, rerun>>
    /\ UNCHANGED startup

\* delete_record raises
DeleteFails ==
    /\ pc = "delete"
    /\ \E filename \in pending :
         calls' = Append(calls, DeleteCall(filename, FALSE))
    /\ pc' = "aborted"
    /\ exit_code' = 1
    /\ UNCHANGED <<fs, store, existing_records, md_files, idx, docs_before,
                   exceeded_limit, current_filenames, stats, deleted_filenames,
                   pending, deleted_count, docs_after, reported, classified,
                   store0, rerun>>
    /\ UNCHANGED startup

(***************************************************************************)
(* Lines 179-198                                                           *)
(***************************************************************************)
Report ==
    /\ pc = "delete"
    /\ pending = {}
    /\ deleted_count' = Cardinality(deleted_filenames)
    /\ docs_after' = DocsAfter(docs_before, stats.new,
                               Cardinality(deleted_filenames))
    /\ reported' = TRUE
    /\ session' = "closed"
    /\ exit_code' = FinalStatus(exceeded_limit)
    /\ pc' = "done"
    /\ UNCHANGED <<resolved, stderr, recovering, origin>>
    /\ UNCHANGED <<fs, store, existing_records, md_files, idx, docs_before,
                   exceeded_limit, current_filenames, stats, deleted_filenames,
                   pending, classified, calls, store0, rerun>>

Next ==
    \/ EditFs
    \/ RejectMissing
    \/ RejectNotADirectory
    \/ StartLoadFails
    \/ StartNothingToDo
    \/ StartScan
    \/ ProcessUnchanged
    \/ ProcessEmbedFails
    \/ ProcessUpsertFails
    \/ ProcessUpsert
    \/ ComputeDeleted
    \/ DeleteOne
    \/ DeleteFails
    \/ Report

Spec == Init /\ [][Next]_vars

\* The directories of SpecStartup: an empty one, and one with two documents.
StartupDirectories ==
    {d \in Directories :
        \/ \A f \in Files : d[f] = Absent
        \/ d["a.md"] = Short /\ d["b.md"] = Long /\ d["sub/c.md"] = Absent}

InitStartup == Init /\ fs \in StartupDirectories

\* Runs under every configuration over a directory that stays as it is, from
\* an empty table (no record is ever removed: the deletes are not enabled).
NextStartup ==
    \/ RejectMissingAny
    \/ RejectNotADirectory
    \/ StartLoadFails
    \/ StartNothingToDo
    \/ StartScan
    \/ ProcessUnchanged
    \/ ProcessEmbedFails
    \/ ProcessUpsertFails
    \/ ProcessUpsert
    \/ ComputeDeleted
    \/ Report

SpecStartup == InitStartup /\ [][NextStartup]_vars

\* The texts each path can hold in SpecRecovery.
RecoveryLibrary ==
    [f \in Files |-> IF f = "a.md" THEN {Short, Long} ELSE {Short}]

InitRecovery ==
    Init /\ \A f \in Files : fs[f] \in RecoveryLibrary[f] \cup {Absent}

\* Every run, whose configuration is valid, keeps the table its predecessor
\* started from when that predecessor was aborted and the directory is the same.
NextRecovery ==
    \/ EditFsWithin(RecoveryLibrary)
    \/ RestartLoadFails
    \/ RestartNothingToDo
    \/ RestartScan
    \/ ProcessUnchanged
    \/ ProcessEmbedFails
    \/ ProcessUpsertFails
    \/ ProcessUpsert
    \/ ComputeDeleted
    \/ DeleteOne
    \/ DeleteFails
    \/ Report

SpecRecovery == InitRecovery /\ [][NextRecovery]_vars

(***************************************************************************)
(* Vocabulary of the properties                                            *)
(***************************************************************************)
\* The identities a table holds.
Identities(db) == {db[k].filename : k \in DOMAIN db}

\* The identities the scan of this run yields.
Present == {f \in Files : fs[f] # Absent}

\* Positions in calls of the calls of kind op made for the path f.
CallsOf(op, f) == {i \in DOMAIN calls : calls[i].op = op /\ calls[i].file = f}

\* Positions in calls of the calls of kind op.
Issued(op) == {i \in DOMAIN calls : calls[i].op = op}

\* The snapshot was read and the listing taken.
Scanning == calls # <<>> /\ calls[1].ok

\* The record a table holds for the identity f.
RecordOf(db, f) == CHOOSE r \in {db[k] : k \in DOMAIN db} : r.filename = f

Limit == MAX_CONTENT_LENGTH

RECURSIVE IsPrefixOf(_, _)
\* The text p is an initial part of the text t.
IsPrefixOf(p, t) ==
    \/ p = <<>>
    \/ /\ t # <<>>
       /\ Head(p)[1] = Head(t)[1]
       /\ IF Len(p) = 1
          THEN Head(p)[2] <= Head(t)[2]
          ELSE Head(p)[2] = Head(t)[2] /\ IsPrefixOf(Tail(p), Tail(t))

\* p is the text t cut to its first Limit characters, t itself if it has no more.
IsNormalOf(p, t) ==
    /\ IsPrefixOf(p, t)
    /\ TextLen(p) = IF TextLen(t) > Limit THEN Limit ELSE TextLen(t)

\* The normalized content of the file at f.
Normal(f) == CHOOSE p \in Contents : IsNormalOf(p, fs[f])

\* The files of the scan that are over the limit.
Oversized == {f \in Present : TextLen(fs[f]) > Limit}

\* The table holds one record per present file, with the normalized content of
\* the file and the hash of that content.
StoreMatchesFilesystem ==
    /\ Identities(store) = Present
    /\ \A k \in DOMAIN store :
          /\ IsNormalOf(store[k].content, fs[store[k].filename])
          /\ store[k].hash = compute_hash(store[k].content)

\* The removed identities: in the table at the start of the run, not in the scan.
Removed == Identities(store0) \ Present

\* One delete was issued for f, under the key that held f's record, which is gone.
DeletedOnce(f) ==
    /\ Cardinality(CallsOf("delete", f)) = 1
    /\ \A i \in CallsOf("delete", f) :
          /\ calls[i].key \in DOMAIN store0
          /\ store0[calls[i].key].filename = f
          /\ calls[i].key \notin DOMAIN store
    /\ f \notin Identities(store)

(***************************************************************************)
(* C1                                                                      *)
(***************************************************************************)
\* C1 as stated: after every run that ends without a provider or store error,
\* whatever the scan yielded, the table matches the filesystem.
C1_StoreMatchesAfterEveryRun == pc = "done" => StoreMatchesFilesystem

\* C1 amended: after every run that scanned at least one document and ended
\* without a provider or store error the table matches the filesystem (same
\* identities, normalized content, hash of it); a run whose scan yields no
\* document leaves the table as it found it.
C1_StoreMatchesAfterNonEmptyScan ==
    pc = "done" =>
        IF Present # {} THEN StoreMatchesFilesystem ELSE store = store0

\* A completed run that added, replaced and removed records and truncated.
C1_Witness ==
    /\ pc = "done"
    /\ reported
    /\ stats.new = 1
    /\ stats.updated = 1
    /\ Cardinality(Removed) = 1
    /\ exceeded_limit

(***************************************************************************)
(* C2                                                                      *)
(***************************************************************************)
\* C2: a run that follows a completed run with no change of the filesystem
\* classifies every document Unchanged, issues no embedding request, upsert or
\* delete, counts new = updated = deleted = 0 and leaves the table identical.
C2_Idempotence ==
    rerun =>
        /\ store = store0
        /\ Issued("embed") = {} /\ Issued("upsert") = {} /\ Issued("delete") = {}
        /\ \A f \in Files : classified[f] \in {"None", "Unchanged"}
        /\ stats.new = 0 /\ stats.updated = 0
        /\ deleted_filenames = {} /\ deleted_count = 0
        /\ pc = "done" /\ reported =>
              /\ \A f \in Present : classified[f] = "Unchanged"
              /\ stats.unchanged = Cardinality(Present)

\* A second run over three unchanged files, one of them over the limit.
C2_Witness ==
    /\ rerun
    /\ pc = "done"
    /\ reported
    /\ exceeded_limit
    /\ stats.unchanged = 3

(***************************************************************************)
(* C3                                                                      *)
(***************************************************************************)
\* C3 as stated: in every completed run, the empty scan included, each identity
\* of the snapshot that the scan lacks gets exactly one delete, under the key
\* its record was stored under, and is gone from the table after the run.
C3_DeletionCompleteInEveryRun ==
    pc = "done" => \A f \in Removed : DeletedOnce(f)

\* C3 amended: the same for every completed run whose scan yields at least one
\* document; when the scan is empty no delete is issued.
C3_DeletionCompleteAfterNonEmptyScan ==
    pc = "done" =>
        IF Present # {}
        THEN \A f \in Removed : DeletedOnce(f)
        ELSE Issued("delete") = {}

\* A completed run that removed the records of two vanished files.
C3_Witness ==
    /\ pc = "done"
    /\ reported
    /\ Cardinality(Removed) = 2
    /\ deleted_count = 2

(***************************************************************************)
(* C4                                                                      *)
(***************************************************************************)
\* C4: when the scan yields no document the run ends with exit code 0 without
\* reaching the classification, having issued no embedding request, upsert or
\* delete; the table is what it was before the run.
C4_EmptyScanMutatesNothing ==
    (Scanning /\ Present = {}) =>
        /\ pc = "done"
        /\ exit_code = 0
        /\ ~reported
        /\ Len(calls) = 1
        /\ store = store0

\* An empty scan against a table that still holds three records.
C4_Witness ==
    /\ Scanning
    /\ Present = {}
    /\ pc = "done"
    /\ Cardinality(DOMAIN store) = 3

(***************************************************************************)
(* C5                                                                      *)
(***************************************************************************)
\* C5: a document classified New or Updated has exactly one embedding request,
\* whose payload is its normalized content; a document classified Unchanged has
\* none, and its record still carries the embedding it had before the run.
C5_OneEmbeddingPerChangedDocument ==
    \A f \in Files :
        /\ classified[f] \in {"New", "Updated"} =>
              /\ Cardinality(CallsOf("embed", f)) = 1
              /\ \A i \in CallsOf("embed", f) : IsNormalOf(calls[i].text, fs[f])
        /\ classified[f] \in {"None", "Unchanged"} => CallsOf("embed", f) = {}
        /\ classified[f] = "Unchanged" =>
              /\ f \in Identities(store0) /\ f \in Identities(store)
              /\ RecordOf(store, f).embedding = RecordOf(store0, f).embedding

\* A run that embedded a new and an updated document and skipped an unchanged,
\* oversized one.
C5_Witness ==
    /\ pc = "done"
    /\ \E f, g, h \in Files :
          /\ classified[f] = "New"
          /\ classified[g] = "Updated"
          /\ classified[h] = "Unchanged" /\ h \in Oversized
    /\ Cardinality(Issued("embed")) = 2

(***************************************************************************)
(* C6                                                                      *)
(***************************************************************************)
\* What the three-way diff against the table at the start of the run gives f.
Diff(f) ==
    IF f \notin Identities(store0) THEN "New"
    ELSE IF RecordOf(store0, f).hash = compute_hash(Normal(f)) THEN "Unchanged"
    ELSE "Updated"

\* C6: every classified document has the class of the three-way diff against
\* the snapshot loaded at the start (identity absent: New; present with another
\* fingerprint than that of the normalized content: Updated; present with the
\* same fingerprint: Unchanged, whatever the other fields), and the Deleted set
\* is the snapshot identities minus the scanned ones.
C6_ClassificationIsThreeWayDiff ==
    /\ \A f \in Files : classified[f] # "None" => classified[f] = Diff(f)
    /\ pc = "loop" => \A i \in 1..(idx - 1) : classified[md_files[i]] # "None"
    /\ (pc = "delete" \/ reported) =>
          /\ deleted_filenames = Removed
          /\ \A f \in Present : classified[f] # "None"
    /\ store0 = EmptyMap => \A f \in Files : classified[f] \in {"None", "New"}

\* A reported run that found one document Unchanged and one Updated and
\* computed a Deleted set of one identity.
C6_Witness ==
    /\ reported
    /\ \E f, g \in Files :
          /\ classified[f] = "Unchanged"
          /\ classified[g] = "Updated"
    /\ Cardinality(deleted_filenames) = 1

(***************************************************************************)
(* C7                                                                      *)
(***************************************************************************)
\* C7: an oversized document does not stop the run: a run aborts only on a
\* failed call, no exit status is set before the run has ended, and a run that
\* reaches the report has classified every scanned document, left the table
\* matching the filesystem, and exits non-zero iff some scanned document
\* exceeded the limit, whatever its class; a completed run without one exits 0.
C7_TruncationReportedAtExit ==
    /\ pc = "aborted" => ~calls[Len(calls)].ok
    /\ pc \in {"loop", "delete"} => exit_code = -1
    /\ pc = "done" => exit_code = IF Oversized # {} THEN 1 ELSE 0
    /\ (pc = "done" /\ Oversized # {}) =>
          /\ reported
          /\ \A f \in Present : classified[f] # "None"
          /\ StoreMatchesFilesystem
          /\ \A f \in Removed : DeletedOnce(f)

\* The oversized document came first and was Unchanged; a new document and a
\* delete followed it, and the run exited 1.
C7_Witness ==
    /\ pc = "done"
    /\ exit_code = 1
    /\ md_files[1] \in Oversized
    /\ classified[md_files[1]] = "Unchanged"
    /\ stats.new = 1
    /\ deleted_count = 1

(***************************************************************************)
(* C8                                                                      *)
(***************************************************************************)
\* C8: the content an upsert writes for a document over the limit has exactly
\* Limit characters and is the start of the raw content; content within the
\* limit is written as it is; the fingerprint written is that of the written
\* content, as is the fingerprint classification compares: an oversized
\* document is Unchanged exactly when the snapshot holds the fingerprint of its
\* truncated content.
C8_TruncationCorrect ==
    /\ \A i \in Issued("upsert") :
          LET raw == fs[calls[i].file]
              written == calls[i].content
          IN  /\ TextLen(raw) > Limit =>
                    /\ TextLen(written) = Limit
                    /\ IsPrefixOf(written, raw)
                    /\ calls[i].hash # compute_hash(raw)
              /\ TextLen(raw) <= Limit => written = raw
              /\ calls[i].hash = compute_hash(written)
              /\ calls[i].ok =>
                    /\ calls[i].key \in DOMAIN store
                    /\ store[calls[i].key].content = written
                    /\ store[calls[i].key].hash = compute_hash(written)
    /\ \A f \in Oversized :
          classified[f] # "None" =>
              (classified[f] = "Unchanged" <=>
                  /\ f \in Identities(store0)
                  /\ \E p \in Contents :
                        /\ TextLen(p) = Limit
                        /\ IsPrefixOf(p, fs[f])
                        /\ RecordOf(store0, f).hash = compute_hash(p))

\* An oversized document was written, and another one was found Unchanged
\* against the record of a file that held exactly its first Limit characters.
C8_Witness ==
    /\ pc = "done"
    /\ \E i \in Issued("upsert") : calls[i].file \in Oversized /\ calls[i].ok
    /\ \E f \in Oversized :
          /\ classified[f] = "Unchanged"
          /\ RecordOf(store0, f).content # fs[f]

(***************************************************************************)
(* C9                                                                      *)
(***************************************************************************)
\* C9: a run that reaches the report has after = before + new - deleted, with
\* before the number of records at the start of the run, new the number of
\* documents classified New and deleted the number of removed identities.
C9_ConservationLaw ==
    reported =>
        /\ docs_before = Cardinality(DOMAIN store0)
        /\ stats.new = Cardinality({f \in Files : classified[f] = "New"})
        /\ deleted_count = Cardinality(Removed)
        /\ docs_after = Cardinality(DOMAIN store0)
                          + Cardinality({f \in Files : classified[f] = "New"})
                          - Cardinality(Removed)

\* A report in which updated and unchanged documents stand next to deletions.
C9_Witness ==
    /\ reported
    /\ docs_before = 3
    /\ stats.updated = 1
    /\ deleted_count = 2
    /\ docs_after = 1

(***************************************************************************)
(* C10                                                                     *)
(***************************************************************************)
\* The record with identity f is the same in both tables, or in neither.
SameRecord(f, db1, db2) ==
    IF f \in Identities(db1)
    THEN f \in Identities(db2) /\ RecordOf(db1, f) = RecordOf(db2, f)
    ELSE f \notin Identities(db2)

\* The last call of the run is an embedding request that failed.
EmbeddingFailed ==
    /\ calls # <<>>
    /\ calls[Len(calls)].op = "embed"
    /\ ~calls[Len(calls)].ok

\* C10: a failed embedding request is the last call of its run: the run is
\* aborted with a non-zero status, no upsert was issued for that document and
\* its record is what it was, no later document was classified, no delete was
\* issued, every upsert that succeeded before is in the table, and no record
\* ever carries anything but a vector the provider returned.
C10_EmbeddingFailureIsFailFast ==
    /\ \A i \in Issued("embed") : ~calls[i].ok => i = Len(calls)
    /\ \A k \in DOMAIN store : store[k].embedding \in Vectors
    /\ EmbeddingFailed =>
          LET f == calls[Len(calls)].file
          IN  /\ pc = "aborted" /\ exit_code = 1 /\ ~reported
              /\ md_files[idx] = f
              /\ CallsOf("upsert", f) = {}
              /\ SameRecord(f, store0, store)
              /\ \A j \in (idx + 1)..Len(md_files) :
                    classified[md_files[j]] = "None"
              /\ Issued("delete") = {}
              /\ \A i \in Issued("upsert") :
                    /\ calls[i].ok
                    /\ calls[i].key \in DOMAIN store
                    /\ store[calls[i].key] =
                          [filename |-> calls[i].file,
                           content |-> calls[i].content,
                           embedding |-> calls[i].embedding,
                           hash |-> calls[i].hash]
              /\ \A g \in Files \ {md_files[j] : j \in 1..idx} :
                    SameRecord(g, store0, store)

\* The request failed for the third document, an updated one, after the
\* upserts of the first two.
C10_Witness ==
    /\ EmbeddingFailed
    /\ idx = 3
    /\ classified[md_files[3]] = "Updated"
    /\ Cardinality(Issued("upsert")) = 2

(***************************************************************************)
(* C11                                                                     *)
(***************************************************************************)
\* The parameters this run was started without.
Unresolved == {p \in DOMAIN resolved : ~resolved[p]}

\* C11: a run that lacks a required parameter, or whose source path is not a
\* directory, exits non-zero before the connection is opened and before any
\* store or provider call (the table is untouched, nothing is classified); the
\* one message of a run with missing parameters names every missing parameter,
\* each once; and a run that opened the connection printed no such message.
C11_ConfigurationErrorsArePreflight ==
    /\ Unresolved # {} => pc = "rejected"
    /\ stderr # <<>> => pc = "rejected"
    /\ session # "none" => (Unresolved = {} /\ stderr = <<>>)
    /\ pc = "rejected" =>
          /\ exit_code = 1
          /\ session = "none"
          /\ calls = <<>>
          /\ store = store0
          /\ classified = NoClass /\ ~reported
          /\ Len(stderr) = 1
          /\ IF Unresolved # {}
             THEN /\ stderr[1].error = "Missing required parameters"
                  /\ {stderr[1].items[i] : i \in DOMAIN stderr[1].items}
                        = {Label(p) : p \in Unresolved}
                  /\ Len(stderr[1].items) = Cardinality(Unresolved)
             ELSE stderr[1].error = "is not a directory"

\* A run rejected for four missing parameters while the table held records.
C11_Witness ==
    /\ pc = "rejected"
    /\ Cardinality(Unresolved) = 4
    /\ Cardinality(DOMAIN store) = 2

(***************************************************************************)
(* C12                                                                     *)
(***************************************************************************)
\* The documents of the scan the loop has classified so far.
ClassifiedSoFar == {f \in Files : classified[f] # "None"}

\* C12 as stated: no upsert and no delete is issued before every scanned
\* document has been classified.
C12_NoMutationBeforeAllClassified ==
    (Issued("upsert") # {} \/ Issued("delete") # {}) =>
        \A f \in Present : classified[f] # "None"

\* C12 amended: classification and upserts are interleaved, one document at a
\* time: the documents with an upsert are the New and Updated ones among those
\* classified so far (but one whose embedding request failed), the upsert of a
\* document is in the table before the next
\* document is classified, and only the deletes wait for the classification of
\* every scanned document.  The snapshot every document is classified against
\* is the table as it was at the start of the run, whatever was upserted since.
C12_UpsertsInterleavedDeletesAfter ==
    /\ pc = "loop" => ClassifiedSoFar = {md_files[i] : i \in 1..(idx - 1)}
    /\ {calls[i].file : i \in Issued("upsert")} =
          {f \in ClassifiedSoFar :
              /\ classified[f] \in {"New", "Updated"}
              /\ \A i \in CallsOf("embed", f) : calls[i].ok}
    /\ \A i \in Issued("upsert") :
          calls[i].ok =>
              /\ calls[i].key \in DOMAIN store
              /\ store[calls[i].key].embedding = calls[i].embedding
    /\ Issued("delete") # {} => ClassifiedSoFar = Present
    /\ pc \in {"loop", "delete"} =>
          /\ DOMAIN existing_records = Identities(store0)
          /\ \A f \in DOMAIN existing_records :
                existing_records[f] = RecordOf(store0, f)
    /\ \A f \in ClassifiedSoFar : classified[f] = Diff(f)

\* The first of three documents is in the table, changed, while the other two
\* are not classified yet.
C12_Witness ==
    /\ pc = "loop"
    /\ idx = 2
    /\ Len(md_files) = 3
    /\ classified[md_files[1]] = "Updated"
    /\ RecordOf(store, md_files[1]) # RecordOf(store0, md_files[1])
    /\ classified[md_files[2]] = "None"
    /\ classified[md_files[3]] = "None"

(***************************************************************************)
(* C13                                                                     *)
(***************************************************************************)
\* The identities a completed run may touch: New, Updated and Deleted ones.
Touched ==
    {f \in Files : classified[f] \in {"New", "Updated"}} \cup deleted_filenames

\* C13: in a completed run there is one upsert for each document classified
\* New or Updated and none for any other; the record it leaves has the
\* identity, content, embedding and fingerprint of that upsert; no call at all
\* names an Unchanged document; and every record of an identity that is not
\* New, Updated or Deleted is in the table after the run as it was before, under
\* the same key.
C13_MinimalMutations ==
    pc = "done" =>
        /\ \A f \in Files :
              Cardinality(CallsOf("upsert", f)) =
                  IF classified[f] \in {"New", "Updated"} THEN 1 ELSE 0
        /\ \A i \in Issued("upsert") :
              /\ calls[i].key \in DOMAIN store
              /\ store[calls[i].key] =
                    [filename |-> calls[i].file, content |-> calls[i].content,
                     embedding |-> calls[i].embedding, hash |-> calls[i].hash]
              /\ \A k \in DOMAIN store :
                    store[k].filename = calls[i].file => k = calls[i].key
        /\ \A f \in Files :
              classified[f] = "Unchanged" =>
                  \A i \in 2..Len(calls) : calls[i].file # f
        /\ \A f \in Files \ Touched : SameRecord(f, store0, store)
        /\ \A k \in DOMAIN store0 :
              store0[k].filename \notin Touched =>
                  k \in DOMAIN store /\ store[k] = store0[k]

\* A completed run that replaced the embedding of one record, left another
\* record alone and removed a third.
C13_Witness ==
    /\ pc = "done"
    /\ \E f, g \in Files :
          /\ classified[f] = "Updated"
          /\ RecordOf(store, f).embedding # RecordOf(store0, f).embedding
          /\ classified[g] = "Unchanged"
    /\ Cardinality(deleted_filenames) = 1

(***************************************************************************)
(* C14                                                                     *)
(***************************************************************************)
\* The last call of the run is a store call that failed.
StoreFailed ==
    /\ calls # <<>>
    /\ calls[Len(calls)].op \in {"select", "upsert", "delete"}
    /\ ~calls[Len(calls)].ok

\* C14: a failed store call (snapshot read, upsert or delete) is the last call
\* of its run: the run is aborted with a non-zero status and without the
\* statistics report, and every upsert and every delete that succeeded before
\* it is still in effect in the table.
C14_StoreFailureAbortsWithoutRollback ==
    /\ \A i \in DOMAIN calls : ~calls[i].ok => i = Len(calls)
    /\ StoreFailed =>
          /\ pc = "aborted" /\ exit_code = 1
          /\ ~reported /\ session # "closed"
          /\ \A i \in Issued("upsert") :
                calls[i].ok =>
                    /\ calls[i].key \in DOMAIN store
                    /\ store[calls[i].key] =
                          [filename |-> calls[i].file,
                           content |-> calls[i].content,
                           embedding |-> calls[i].embedding,
                           hash |-> calls[i].hash]
          /\ \A i \in Issued("delete") :
                calls[i].ok =>
                    /\ calls[i].key \in DOMAIN store0
                    /\ calls[i].key \notin DOMAIN store
          /\ calls[Len(calls)].op = "select" => store = store0

\* The second delete failed, after an upsert and a delete that succeeded.
C14_Witness ==
    /\ StoreFailed
    /\ calls[Len(calls)].op = "delete"
    /\ Cardinality(Issued("upsert")) = 1
    /\ Cardinality(Issued("delete")) = 2
    /\ store # store0

(***************************************************************************)
(* C15                                                                     *)
(***************************************************************************)
\* The records of db have pairwise distinct identities and each is stored under
\* the key derived from its identity.
WellKeyed(db) ==
    /\ \A k \in DOMAIN db : k = filename_to_id(db[k].filename)
    /\ \A k1, k2 \in DOMAIN db : db[k1].filename = db[k2].filename => k1 = k2

\* C15: in a run that reaches the report from a table whose records have
\* distinct identities and derived keys, "Documents before" is the number of
\* records the table held at the start and "Documents after" the number it
\* holds at the end.
C15_ReportedTotalsMatchStore ==
    (reported /\ WellKeyed(store0)) =>
        /\ docs_before = Cardinality(DOMAIN store0)
        /\ docs_after = Cardinality(DOMAIN store)

\* A report of two records before and two after, one of them added, one
\* replaced and one removed.
C15_Witness ==
    /\ reported
    /\ WellKeyed(store0)
    /\ docs_before = 2
    /\ docs_after = 2
    /\ stats.new = 1
    /\ stats.updated = 1
    /\ deleted_count = 1

(***************************************************************************)
(* C16                                                                     *)
(***************************************************************************)
\* The documents whose upsert the aborted run before this one committed: the
\* present files whose record that run left other than it found it.
Committed == {f \in Present : ~SameRecord(f, origin, store0)}

\* The documents a run from the table db would find Unchanged.
UnchangedAgainst(db) ==
    {f \in Present :
        /\ f \in Identities(db)
        /\ RecordOf(db, f).hash = compute_hash(Normal(f))}

\* The table is one a completed run started from db leaves: db itself after an
\* empty scan, else the records of the present files, those the run finds
\* Unchanged as they are in db.
CompletedFrom(db) ==
    IF Present = {}
    THEN store = db
    ELSE /\ StoreMatchesFilesystem
         /\ \A f \in UnchangedAgainst(db) : RecordOf(store, f) = RecordOf(db, f)

\* C16: a run that follows an aborted run over the same filesystem finds
\* Unchanged, and neither embeds nor upserts, every document whose upsert the
\* aborted run had committed, and when it completes the table is one a
\* completed run from the table the aborted run started with leaves.
C16_RecoveryAfterAbort ==
    recovering =>
        /\ \A f \in Committed :
              /\ classified[f] \in {"None", "Unchanged"}
              /\ CallsOf("embed", f) = {}
              /\ CallsOf("upsert", f) = {}
              /\ pc = "done" => classified[f] = "Unchanged"
        /\ pc = "done" => CompletedFrom(origin)

\* The run before was aborted after one upsert; this one found that document
\* Unchanged, added another, removed a stale record and completed.
C16_Witness ==
    /\ recovering
    /\ pc = "done"
    /\ Cardinality(Committed) = 1
    /\ stats.unchanged = 1
    /\ stats.new = 1
    /\ deleted_count = 1
    /\ Cardinality(DOMAIN origin) = 1

(***************************************************************************)
(* C17                                                                     *)
(***************************************************************************)
\* C17: every delete of a run comes after every embedding request and every
\* upsert of that run; a run aborted by a failed embedding request has issued
\* no delete, and the records of the removed files are in the table as they
\* were at the start of the run.
C17_DeletesComeLast ==
    /\ \A i \in Issued("delete") :
          \A j \in Issued("embed") \cup Issued("upsert") : j < i
    /\ Issued("delete") # {} => pc \in {"delete", "done", "aborted"}
    /\ EmbeddingFailed =>
          /\ Issued("delete") = {}
          /\ \A f \in Removed :
                /\ f \in Identities(store)
                /\ RecordOf(store, f) = RecordOf(store0, f)

\* The embedding request of the second document failed after the upsert of the
\* first, while the table held the record of a removed file.
C17_Witness ==
    /\ EmbeddingFailed
    /\ Cardinality(Issued("upsert")) = 1
    /\ Cardinality(Removed) = 1
    /\ store # store0

(***************************************************************************)
(* C18                                                                     *)
(***************************************************************************)
\* The documents of the scan the three-way diff puts in class c.
InClass(c) == {f \in Present : Diff(f) = c}

\* C18: what a run that reaches the report has printed, counted and returned,
\* and the table it leaves, are given by the table at its start, the scanned
\* documents and the vector the provider answered for each embedded document,
\* whatever the order of the listing: each document has the class of the diff
\* against the table at the start, the counters are the sizes of the classes,
\* the exit status tells whether a document was oversized, and the table holds
\* the old record of each Unchanged document and, for each other document, its
\* normalized content, the hash of it and the vector answered for it.  The
\* snapshot is at every point of the run the table of its start.
C18_OrderIndependence ==
    /\ pc \in {"loop", "delete"} \/ reported =>
          /\ DOMAIN existing_records = Identities(store0)
          /\ \A f \in DOMAIN existing_records :
                existing_records[f] = RecordOf(store0, f)
    /\ reported =>
          /\ \A f \in Files :
                classified[f] = IF f \in Present THEN Diff(f) ELSE "None"
          /\ stats = [new |-> Cardinality(InClass("New")),
                      updated |-> Cardinality(InClass("Updated")),
                      unchanged |-> Cardinality(InClass("Unchanged"))]
          /\ deleted_filenames = Removed
          /\ deleted_count = Cardinality(Removed)
          /\ exit_code = IF Oversized = {} THEN 0 ELSE 1
          /\ Identities(store) = Present
          /\ Cardinality(DOMAIN store) = Cardinality(Present)
          /\ \A f \in InClass("Unchanged") :
                RecordOf(store, f) = RecordOf(store0, f)
          /\ \A f \in InClass("New") \cup InClass("Updated") :
                /\ Cardinality(CallsOf("upsert", f)) = 1
                /\ \A i \in CallsOf("upsert", f) :
                      RecordOf(store, f) =
                          [filename |-> f, content |-> Normal(f),
                           embedding |-> calls[i].embedding,
                           hash |-> compute_hash(Normal(f))]

\* A report after a listing in the reverse of the alphabetical order, with one
\* document of each class.
C18_Witness ==
    /\ reported
    /\ md_files = <<"sub/c.md", "b.md", "a.md">>
    /\ stats = [new |-> 1, updated |-> 1, unchanged |-> 1]

(***************************************************************************)
(* C19                                                                     *)
(***************************************************************************)
\* The documents the run has put in class c.
Counted(c) == {f \in Files : classified[f] = c}

\* The sum of the three counters.
Total == stats.new + stats.updated + stats.unchanged

\* The listing was walked to its end and the Deleted set computed.
LoopCompleted == pc = "delete" \/ reported

\* C19: each counter is the number of documents the run has put in its class,
\* so a document is counted once and in one counter; between two iterations of
\* the loop the three counters add up to the number of documents walked so
\* far; and once the loop has walked the whole listing they add up to the
\* number of scanned documents, the Deleted set shares no identity with the
\* scan, and updated + unchanged + deleted is the size of the snapshot.  A run
\* that finds no document leaves before the counters are created.
C19_CounterPartition ==
    /\ stats = [new |-> Cardinality(Counted("New")),
                updated |-> Cardinality(Counted("Updated")),
                unchanged |-> Cardinality(Counted("Unchanged"))]
    /\ Total = Cardinality(ClassifiedSoFar)
    /\ ClassifiedSoFar = current_filenames
    /\ pc = "loop" =>
          /\ Total = idx - 1
          /\ ClassifiedSoFar = {md_files[i] : i \in 1..(idx - 1)}
    /\ LoopCompleted =>
          /\ Total = Len(md_files)
          /\ Total = Cardinality(Present)
          /\ deleted_filenames \cap Present = {}
          /\ deleted_filenames \cap ClassifiedSoFar = {}
          /\ stats.updated + stats.unchanged + Cardinality(deleted_filenames)
                = Cardinality(DOMAIN existing_records)
    /\ reported => deleted_count = Cardinality(deleted_filenames)

\* A report of a snapshot of three identities, one found changed, one found as
\* it was and one gone.
C19_Witness ==
    /\ reported
    /\ Cardinality(DOMAIN existing_records) = 3
    /\ stats = [new |-> 0, updated |-> 1, unchanged |-> 1]
    /\ deleted_count = 1

=============================================================================
